---- MODULE Spec2Model ----
(***************************************************************************)
(* Model of the DiddyBorg / PicoBorg Reverse I2C driver.                   *)
(*                                                                         *)
(* The repository holds two drafts of the driver library:                  *)
(*   "picoborgrev" : src/picoborgrev/src (DiddyBorg<T: I2CDevice>), which  *)
(*                   turns catalog variants into bytes with `as u8`;       *)
(*   "diddyborg"   : src/diddyborg/src/diddyborg/mod.rs, which uses        *)
(*                   Command::value() / CommandValue::value().             *)
(* A session runs the code of one draft, chosen when it is constructed.    *)
(*                                                                         *)
(* The transport (i2cdev) is the environment: every open, write and read   *)
(* nondeterministically succeeds or fails, and a successful read delivers  *)
(* any 4 bytes.  A failed read delivers nothing (LinuxI2CDevice::read      *)
(* copies to the caller's buffer only on success).                         *)
(*                                                                         *)
(* Powers (f32) are modelled as exact fractions n / PowerScale.            *)
(*                                                                         *)
(* SpecPeripheral closes the system: the transport does not fail and a     *)
(* peripheral that speaks the catalog's bytes stores what it is sent and   *)
(* answers the reads.  There the prototype of src/diddyborg/src/main.rs    *)
(* (PiBorg, draft "piborg") runs beside the two library drafts.            *)
(***************************************************************************)
EXTENDS Integers, Sequences, FiniteSets, TLC

\* ------------------------------------------------------------- bounds
\* Powers are the fractions -MaxPower/PowerScale .. MaxPower/PowerScale.
PowerScale == 4
MaxPower == 6
\* Response byte 1 is drawn from 0..MaxCode plus the identity byte and 255.
MaxCode == 3

\* ---------------------------------------------------------- constants
I2C_READ_LEN == 4
PWM_MAX == 255
I2C_WAIT == 10
I2C_ID_PICOBORG_REV == 21

\* ------------------------------------------------------ command catalog
\* The variants of enum Command, in declaration order.
CommandOrder ==
    << "SetLed", "GetLed", "SetAFwd", "SetARev", "GetA", "SetBFwd", "SetBRev",
       "GetB", "AllOff", "ResetEpo", "GetEpo", "SetEpoIgnore", "GetEpoIgnore",
       "GetDriveFault", "SetAllFwd", "SetAllRev", "SetFailsafe", "GetFailsafe",
       "SetEncMode", "GetEncMode", "MoveAFwd", "MoveARev", "MoveBFwd",
       "MoveBRev", "MoveAllFwd", "MoveAllRev", "GetEncMoving", "SetEncSpeed",
       "GetEncSpeed", "GetId", "SetI2cAdd" >>

Command == { CommandOrder[i] : i \in 1..Len(CommandOrder) }

\* The variants of enum CommandValue, in declaration order.
CommandValueOrder == << "Off", "On", "Fwd", "Rev" >>

CommandValue == { CommandValueOrder[i] : i \in 1..Len(CommandValueOrder) }

\* Command::value() numbering every variant by its place and leaving the two
\* out-of-sequence opcodes, GetId and SetI2cAdd, on one default byte.
CommandValueOf_default(c) ==
    IF c \in { "GetId", "SetI2cAdd" }
    THEN 0
    ELSE CHOOSE i \in 1..Len(CommandOrder) : CommandOrder[i] = c

\* Command::value(): the explicit match of the catalog.
CommandValueOf(c) ==
    CASE c = "SetLed" -> 1
      [] c = "GetLed" -> 2
      [] c = "SetAFwd" -> 3
      [] c = "SetARev" -> 4
      [] c = "GetA" -> 5
      [] c = "SetBFwd" -> 6
      [] c = "SetBRev" -> 7
      [] c = "GetB" -> 8
      [] c = "AllOff" -> 9
      [] c = "ResetEpo" -> 10
      [] c = "GetEpo" -> 11
      [] c = "SetEpoIgnore" -> 12
      [] c = "GetEpoIgnore" -> 13
      [] c = "GetDriveFault" -> 14
      [] c = "SetAllFwd" -> 15
      [] c = "SetAllRev" -> 16
      [] c = "SetFailsafe" -> 17
      [] c = "GetFailsafe" -> 18
      [] c = "SetEncMode" -> 19
      [] c = "GetEncMode" -> 20
      [] c = "MoveAFwd" -> 21
      [] c = "MoveARev" -> 22
      [] c = "MoveBFwd" -> 23
      [] c = "MoveBRev" -> 24
      [] c = "MoveAllFwd" -> 25
      [] c = "MoveAllRev" -> 26
      [] c = "GetEncMoving" -> 27
      [] c = "SetEncSpeed" -> 28
      [] c = "GetEncSpeed" -> 29
      [] c = "GetId" -> 153
      [] c = "SetI2cAdd" -> 170

\* CommandValue::value() returning the variant's place in the enumeration.
CommandValueValueOf_ordinal(v) ==
    (CHOOSE i \in 1..Len(CommandValueOrder) : CommandValueOrder[i] = v) - 1

\* CommandValue::value().
CommandValueValueOf(v) ==
    CASE v = "Off" -> 0
      [] v = "On" -> 1
      [] v = "Fwd" -> 1
      [] v = "Rev" -> 2

\* `variant as u8` on an enum declared without discriminants: the variant's
\* position in the declaration, counted from 0.
CommandAsU8(c) ==
    (CHOOSE i \in 1..Len(CommandOrder) : CommandOrder[i] = c) - 1

CommandValueAsU8(v) ==
    (CHOOSE i \in 1..Len(CommandValueOrder) : CommandValueOrder[i] = v) - 1

Crates == { "picoborgrev", "diddyborg" }

\* The byte a draft transmits for an opcode / compares against for a value code.
CommandByte(cr, c) ==
    IF cr = "picoborgrev" THEN CommandAsU8(c) ELSE CommandValueOf(c)

ValueByte(cr, v) ==
    IF cr = "picoborgrev" THEN CommandValueAsU8(v) ELSE CommandValueValueOf(v)

\* ------------------------------------------------------ pure functions
Abs(n) == IF n < 0 THEN 0 - n ELSE n

Powers == (0 - MaxPower)..MaxPower

\* power_to_pwm with the product rounded to the nearest integer.
power_to_pwm_round(n) ==
    LET pwm == (2 * PWM_MAX * Abs(n) + PowerScale) \div (2 * PowerScale)
    IN  IF PWM_MAX * Abs(n) > PWM_MAX * PowerScale THEN PWM_MAX ELSE pwm

\* power_to_pwm without the cap, the cast keeping the low 8 bits.
power_to_pwm_wrap(n) == ((PWM_MAX * Abs(n)) \div PowerScale) % 256

\* power_to_pwm without abs(): `as u8` takes a negative product to 0.
power_to_pwm_signed(n) ==
    IF n < 0 THEN 0
    ELSE IF PWM_MAX * n > PWM_MAX * PowerScale THEN PWM_MAX
    ELSE (PWM_MAX * n) \div PowerScale

\* power_to_pwm: PWM_MAX * |power|, capped at PWM_MAX, then `as u8`
\* (truncation toward zero).  power is n / PowerScale.
power_to_pwm(n) ==
    LET pwm == (PWM_MAX * Abs(n)) \div PowerScale
    IN  IF PWM_MAX * Abs(n) > PWM_MAX * PowerScale THEN PWM_MAX ELSE pwm

\* main.rs power_to_pwm: PWM_MAX * power, negated when power < 0, capped at
\* PWM_MAX, then `as u8`.
power_to_pwm_main(n) ==
    LET pwm0 == PWM_MAX * n
        pwm1 == IF n < 0 THEN 0 - pwm0 ELSE pwm0
        pwm2 == IF pwm1 > PWM_MAX * PowerScale THEN PWM_MAX * PowerScale ELSE pwm1
    IN  pwm2 \div PowerScale


\* The bytes of a 4-byte response the transport may deliver: byte 0 (echo),
\* byte 1 (flag / direction / identity), byte 2 (duty), byte 3 (reserved).
Byte0Samples == { 0, 153 }
Byte1Samples == (0..MaxCode) \cup { I2C_ID_PICOBORG_REV, 255 }
Byte2Samples == { 0, 127, 191, 255 }
Byte3Samples == { 0, 7 }

Responses ==
    { << b0, b1, b2, b3 >> :
        b0 \in Byte0Samples, b1 \in Byte1Samples,
        b2 \in Byte2Samples, b3 \in Byte3Samples }

\* [0; I2C_READ_LEN]
ZeroBuffer == [ i \in 1..I2C_READ_LEN |-> 0 ]

\* --------------------------------------------------------------- results
NoResult == [ kind |-> "none", ty |-> "unit", b |-> FALSE, n |-> 0, err |-> "none" ]
OkUnit == [ kind |-> "Ok", ty |-> "unit", b |-> FALSE, n |-> 0, err |-> "none" ]
OkSession == [ kind |-> "Ok", ty |-> "session", b |-> FALSE, n |-> 0, err |-> "none" ]
OkBool(v) == [ kind |-> "Ok", ty |-> "bool", b |-> v, n |-> 0, err |-> "none" ]
\* Ok(n / PWM_MAX) as f32: n is the signed numerator.
OkF32(v) == [ kind |-> "Ok", ty |-> "f32", b |-> FALSE, n |-> v, err |-> "none" ]
Err(e) == [ kind |-> "Err", ty |-> "unit", b |-> FALSE, n |-> 0, err |-> e ]

\* The error a draft returns for a failed transport call:
\* DiddyBorgError::I2C(e) in picoborgrev, the unit struct DiddyBorgError {}
\* in diddyborg.
TransportError(cr) == IF cr = "picoborgrev" THEN "I2C" ELSE "DiddyBorgError"

\* One entry of the log of what a call did to the buffer and the transport.
Ev(ev, c, bytes, ok, n) ==
    [ ev |-> ev, cmd |-> c, bytes |-> bytes, ok |-> ok, n |-> n ]

\* ------------------------------------------------------------------ state
VARIABLES
    crate,        \* draft whose code the session runs ("none" before new)
    ctor,         \* constructor used: "linux", "linux_draft", "mock"
    state,        \* "NoSession", "Unverified", "Ready", "Failed", "Dropped"
    dev,          \* transport handle: "none", "unopened", "open", "closed"
    read_buffer,  \* DiddyBorg.read_buffer
    buffer,       \* get_diddyborg_id's local buffer
    pc,           \* position of the running call
    op,           \* running / last public operation
    arg,          \* its argument (power numerator, or 1 / 0 for a bool)
    command,      \* `command` parameter of read / opcode of the frame
    data,         \* `data` parameter of raw_write
    txres,        \* what read() returned to its caller
    result,       \* what the last call returned to the caller
    bus,          \* log of the running / last call
    delivered,    \* bytes the transport delivered in this call's read step
    open_ok,      \* "none", "ok", "failed": outcome of LinuxI2CDevice::new
    id,           \* identity byte get_diddyborg_id returned, -1 if none
    stale,        \* read_buffer held a non-zero byte when this call began
    prev_failed,  \* the call before this one returned an error
    periph,       \* the peripheral: what it stored from the frames it received
    prev_op,      \* the operation called before this one
    prev_arg      \* its argument

\* The variables only the closed system (driver and peripheral) moves.
pvars == << periph, prev_op, prev_arg >>

vars ==
    << crate, ctor, state, dev, read_buffer, buffer, pc, op, arg, command,
       data, txres, result, bus, delivered, open_ok, id, stale, prev_failed,
       periph, prev_op, prev_arg >>

\* The peripheral after power-on: LED off, both motors forward at duty 0,
\* no opcode received.  a and b are << direction code, duty >>.
PeriphInit ==
    [ led |-> CommandValueValueOf("Off"),
      a |-> << CommandValueValueOf("Fwd"), 0 >>,
      b |-> << CommandValueValueOf("Fwd"), 0 >>,
      sel |-> 0 ]

Init ==
    /\ crate = "none"
    /\ ctor = "none"
    /\ state = "NoSession"
    /\ dev = "none"
    /\ read_buffer = ZeroBuffer
    /\ buffer = ZeroBuffer
    /\ pc = "idle"
    /\ op = "none"
    /\ arg = 0
    /\ command = "none"
    /\ data = << >>
    /\ txres = NoResult
    /\ result = NoResult
    /\ bus = << >>
    /\ delivered = << >>
    /\ open_ok = "none"
    /\ id = -1
    /\ stale = FALSE
    /\ prev_failed = FALSE
    /\ periph = PeriphInit
    /\ prev_op = "none"
    /\ prev_arg = 0

\* ----------------------------------------------------------- construction
\* DiddyBorg<MockI2CDevice>::new(): no transport is opened and no identity
\* is read; the session is returned at once.
new_mock(cr) ==
    /\ state = "NoSession"
    /\ crate' = cr
    /\ ctor' = "mock"
    /\ state' = "Ready"
    /\ dev' = "open"
    /\ read_buffer' = ZeroBuffer
    /\ op' = "new"
    /\ result' = OkSession
    /\ UNCHANGED << buffer, pc, arg, command, data, txres, bus, delivered,
                    open_ok, id >>
    /\ UNCHANGED << stale, prev_failed >>

\* DiddyBorg::new(path, device_address) is called: the next step is
\* LinuxI2CDevice::new.
new_call(cr, k) ==
    /\ state = "NoSession"
    /\ k = "linux_draft" => cr = "picoborgrev"
    /\ crate' = cr
    /\ ctor' = k
    /\ state' = "Unverified"
    /\ pc' = "open"
    /\ op' = "new"
    /\ UNCHANGED << dev, read_buffer, buffer, arg, command, data, txres,
                    result, bus, delivered, open_ok, id >>
    /\ UNCHANGED << stale, prev_failed >>

\* Whether new returns when LinuxI2CDevice::new fails.  diddyborg returns
\* Err(DiddyBorgError {}); both picoborgrev drafts build the error value in
\* the match arm, drop it and go on to the identity read.
ReturnsOnOpenFailure(cr) == cr = "diddyborg"

\* LinuxI2CDevice::new returns, and new handles it.  On success, and in the
\* drafts that go on after a failure, get_diddyborg_id starts with a zeroed
\* local buffer and calls read(dev, GetId, buffer).
new_open(ok) ==
    /\ state = "Unverified"
    /\ pc = "open"
    /\ open_ok' = IF ok THEN "ok" ELSE "failed"
    /\ IF ~ok /\ ReturnsOnOpenFailure(crate)
       THEN /\ state' = "Failed"
            /\ pc' = "idle"
            /\ result' = Err(TransportError(crate))
            /\ UNCHANGED << dev, buffer, command, bus >>
       ELSE /\ dev' = IF ok THEN "open" ELSE "unopened"
            /\ buffer' = ZeroBuffer
            /\ command' = "GetId"
            /\ bus' = << Ev("zero", "none", << >>, TRUE, I2C_READ_LEN) >>
            /\ pc' = "read_write"
            /\ UNCHANGED << state, result >>
    /\ UNCHANGED << crate, ctor, read_buffer, op, arg, data, txres,
                    delivered, id >>
    /\ UNCHANGED << stale, prev_failed >>

\* The error new returns when the identity byte is not I2C_ID_PICOBORG_REV.
MismatchError(cr, k) ==
    IF cr = "diddyborg" THEN "DiddyBorgError"
    ELSE IF k = "linux" THEN "NotFoundError" ELSE "InvalidIdError"

\* new: `if id == I2C_ID_PICOBORG_REV`.
id_matches_any(idb) == TRUE

id_matches_inverted(idb) == idb # I2C_ID_PICOBORG_REV

id_matches(idb) == idb = I2C_ID_PICOBORG_REV

\* get_diddyborg_id taking a failed read for an identity byte of 0.
get_diddyborg_id_default(res, buf) ==
    IF res.kind = "Ok" THEN [ res EXCEPT !.n = buf[2], !.ty = "u8" ]
    ELSE [ OkUnit EXCEPT !.n = 0, !.ty = "u8" ]

\* get_diddyborg_id: read(...).map(|_| buffer[1]).
get_diddyborg_id(res, buf) ==
    IF res.kind = "Ok" THEN [ res EXCEPT !.n = buf[2], !.ty = "u8" ] ELSE res

\* read returned to get_diddyborg_id, which returns to new; new compares the
\* identity and returns the session or an error.
new_ret ==
    /\ state = "Unverified"
    /\ pc = "read_ret"
    /\ LET r == get_diddyborg_id(txres, buffer)
       IN  /\ id' = IF r.kind = "Ok" THEN r.n ELSE -1
           /\ IF r.kind = "Ok"
              THEN IF id_matches(r.n)
                   THEN /\ state' = "Ready"
                        /\ read_buffer' = ZeroBuffer
                        /\ result' = OkSession
                   ELSE /\ state' = "Failed"
                        /\ result' = Err(MismatchError(crate, ctor))
                        /\ UNCHANGED read_buffer
              ELSE /\ state' = "Failed"
                   /\ result' = r
                   /\ UNCHANGED read_buffer
    /\ pc' = "idle"
    /\ buffer' = ZeroBuffer
    /\ UNCHANGED << crate, ctor, dev, op, arg, command, data, txres, bus,
                    delivered, open_ok >>
    /\ UNCHANGED << stale, prev_failed >>


\* ------------------------------------------------------- read transaction
\* raw_read: `self.read_buffer.iter_mut().for_each(|x| *x = 0)`.
raw_read_no_clear(buf) == buf

raw_read_clear(buf) == ZeroBuffer

\* raw_read passes `&mut self.read_buffer` (get_diddyborg_id: `&mut buffer`)
\* to read, so a successful dev.read fills that very buffer.
read_into_copy(buf, resp) == buf

read_into(buf, resp) == resp

\* read writing the opcode followed by a zero payload byte.
read_write_step_padded(ok, go_on, next) ==
    /\ pc = "read_write"
    /\ bus' = Append(bus, Ev("write", command, << CommandByte(crate, command), 0 >>, ok, 2))
    /\ IF go_on
       THEN /\ pc' = next
            /\ UNCHANGED txres
       ELSE /\ pc' = "read_ret"
            /\ txres' = Err(TransportError(crate))
    /\ UNCHANGED << crate, ctor, state, dev, read_buffer, buffer, op, arg,
                    command, data, result, delivered, open_ok, id >>
    /\ UNCHANGED << stale, prev_failed >>

\* read: dev.write(&[command as u8]) returned `ok`; `go_on` is whether read
\* continues, `next` where it continues.
read_write_step(ok, go_on, next) ==
    /\ pc = "read_write"
    /\ bus' = Append(bus, Ev("write", command, << CommandByte(crate, command) >>, ok, 1))
    /\ IF go_on
       THEN /\ pc' = next
            /\ UNCHANGED txres
       ELSE /\ pc' = "read_ret"
            /\ txres' = Err(TransportError(crate))
    /\ UNCHANGED << crate, ctor, state, dev, read_buffer, buffer, op, arg,
                    command, data, result, delivered, open_ok, id >>
    /\ UNCHANGED << stale, prev_failed >>

read_write_no_sleep(ok) == read_write_step(ok, ok, "read_read")

read_write_ignore_error(ok) == read_write_step(ok, TRUE, "read_sleep")

\* read, first step: the write of the single opcode byte; an error returns.
read_write(ok) == read_write_step(ok, ok, "read_sleep")

\* read whose delay never ends.
read_sleep_forever ==
    /\ pc = "read_sleep"
    /\ pc' = "read_sleep"
    /\ UNCHANGED << crate, ctor, state, dev, read_buffer, buffer, op, arg,
                    command, data, txres, result, bus, delivered, open_ok, id >>
    /\ UNCHANGED << stale, prev_failed >>

\* read, second step: thread::sleep(Duration::from_millis(I2C_WAIT)).
read_sleep ==
    /\ pc = "read_sleep"
    /\ bus' = Append(bus, Ev("sleep", "none", << >>, TRUE, I2C_WAIT))
    /\ pc' = "read_read"
    /\ UNCHANGED << crate, ctor, state, dev, read_buffer, buffer, op, arg,
                    command, data, txres, result, delivered, open_ok, id >>
    /\ UNCHANGED << stale, prev_failed >>

\* read, third step: dev.read(&mut buffer) returned `ok`, having filled the
\* caller's buffer with `resp` on success; read returns to its caller.
read_read(ok, resp) ==
    /\ pc = "read_read"
    /\ bus' = Append(bus, Ev("read", command, IF ok THEN resp ELSE << >>, ok,
                             Len(IF state = "Unverified" THEN buffer ELSE read_buffer)))
    /\ delivered' = IF ok THEN resp ELSE << >>
    /\ IF ok
       THEN /\ txres' = OkUnit
            /\ IF state = "Unverified"
               THEN /\ buffer' = read_into(buffer, resp)
                    /\ UNCHANGED read_buffer
               ELSE /\ read_buffer' = read_into(read_buffer, resp)
                    /\ UNCHANGED buffer
       ELSE /\ txres' = Err(TransportError(crate))
            /\ UNCHANGED << buffer, read_buffer >>
    /\ pc' = "read_ret"
    /\ UNCHANGED << crate, ctor, state, dev, op, arg, command, data, result,
                    open_ok, id >>
    /\ UNCHANGED << stale, prev_failed >>

\* A public read operation is called: raw_read clears the buffer and calls
\* read(dev, c, read_buffer).
raw_read(o, c) ==
    /\ state = "Ready"
    /\ pc = "idle"
    /\ op' = o
    /\ arg' = 0
    /\ command' = c
    /\ data' = << >>
    /\ read_buffer' = raw_read_clear(read_buffer)
    /\ bus' = << Ev("zero", "none", << >>, TRUE, I2C_READ_LEN) >>
    /\ delivered' = << >>
    /\ txres' = NoResult
    /\ result' = NoResult
    /\ pc' = "read_write"
    /\ UNCHANGED << crate, ctor, state, dev, buffer, open_ok, id >>
    /\ stale' = (read_buffer # ZeroBuffer)
    /\ prev_failed' = (result.kind = "Err")

get_led == raw_read("get_led", "GetLed")
get_motor1 == raw_read("get_motor1", "GetB")
get_motor2 == raw_read("get_motor2", "GetA")
get_epo == raw_read("get_epo", "GetEpo")
get_epo_ignore == raw_read("get_epo_ignore", "GetEpoIgnore")
get_comms_failsafe == raw_read("get_comms_failsafe", "GetFailsafe")
get_drive_fault == raw_read("get_drive_fault", "GetDriveFault")

FlagReads ==
    { "get_led", "get_epo", "get_epo_ignore", "get_comms_failsafe", "get_drive_fault" }
MotorReads == { "get_motor1", "get_motor2" }

\* picoborgrev flag reads: Off -> Ok(false), On -> Ok(true), else CorruptedData.
flag_picoborgrev(buf) ==
    LET st == buf[2]
    IN  IF st = CommandValueAsU8("Off") THEN OkBool(FALSE)
        ELSE IF st = CommandValueAsU8("On") THEN OkBool(TRUE)
        ELSE Err("CorruptedData")

\* diddyborg flag reads: read_buffer[1] == CommandValue::On.value().
flag_diddyborg(buf) == OkBool(buf[2] = CommandValueValueOf("On"))

\* picoborgrev motor reads: Fwd -> Ok(power), Rev -> Ok(-power), else
\* CorruptedData; power = read_buffer[2] / PWM_MAX.
motor_picoborgrev(buf) ==
    LET direction == buf[2]
        power == buf[3]
    IN  IF direction = CommandValueAsU8("Fwd") THEN OkF32(power)
        ELSE IF direction = CommandValueAsU8("Rev") THEN OkF32(0 - power)
        ELSE Err("CorruptedData")

\* diddyborg motor reads: Fwd -> power, anything else -> -power.
motor_diddyborg(buf) ==
    LET power == buf[3]
    IN  IF buf[2] = CommandValueValueOf("Fwd") THEN OkF32(power) ELSE OkF32(0 - power)

\* What a public read operation returns: raw_read(..).and_then / .map of
\* the decoding of read_buffer.
decode(cr, o, res, buf) ==
    IF res.kind # "Ok" THEN res
    ELSE IF o \in FlagReads
         THEN (IF cr = "picoborgrev" THEN flag_picoborgrev(buf) ELSE flag_diddyborg(buf))
         ELSE (IF cr = "picoborgrev" THEN motor_picoborgrev(buf) ELSE motor_diddyborg(buf))

\* get_ret rejecting a response whose byte 0 is not the opcode sent.
get_ret_echo ==
    /\ state = "Ready"
    /\ pc = "read_ret"
    /\ result' = IF txres.kind = "Ok" /\ read_buffer[1] # CommandByte(crate, command)
                 THEN Err("CorruptedData")
                 ELSE decode(crate, op, txres, read_buffer)
    /\ pc' = "idle"
    /\ UNCHANGED << crate, ctor, state, dev, read_buffer, buffer, op, arg,
                    command, data, txres, bus, delivered, open_ok, id >>
    /\ UNCHANGED << stale, prev_failed >>

\* get_ret of a session that a failure has poisoned: once a call has failed,
\* the next read operation reports a transport error whatever it read.
get_ret_poisoned ==
    /\ state = "Ready"
    /\ pc = "read_ret"
    /\ result' = IF prev_failed THEN Err(TransportError(crate))
                 ELSE decode(crate, op, txres, read_buffer)
    /\ pc' = "idle"
    /\ UNCHANGED << crate, ctor, state, dev, read_buffer, buffer, op, arg,
                    command, data, txres, bus, delivered, open_ok, id >>
    /\ UNCHANGED << stale, prev_failed >>

\* read returned to raw_read, which returns to the public operation, which
\* decodes and returns.
get_ret ==
    /\ state = "Ready"
    /\ pc = "read_ret"
    /\ result' = decode(crate, op, txres, read_buffer)
    /\ pc' = "idle"
    /\ UNCHANGED << crate, ctor, state, dev, read_buffer, buffer, op, arg,
                    command, data, txres, bus, delivered, open_ok, id >>
    /\ UNCHANGED << stale, prev_failed >>

\* ------------------------------------------------------ write transaction
\* raw_write callable while another operation of the session is in progress.
raw_write_reentrant(o, a, c, payload) ==
    /\ state = "Ready"
    /\ op' = o
    /\ arg' = a
    /\ command' = c
    /\ data' = << CommandByte(crate, c), payload >>
    /\ bus' = << >>
    /\ delivered' = << >>
    /\ txres' = NoResult
    /\ result' = NoResult
    /\ pc' = "write_write"
    /\ UNCHANGED << crate, ctor, state, dev, read_buffer, buffer, open_ok, id >>
    /\ stale' = (read_buffer # ZeroBuffer)
    /\ prev_failed' = (result.kind = "Err")

\* raw_write clearing the response buffer as raw_read does.
raw_write_clearing(o, a, c, payload) ==
    /\ state = "Ready"
    /\ pc = "idle"
    /\ op' = o
    /\ arg' = a
    /\ command' = c
    /\ data' = << CommandByte(crate, c), payload >>
    /\ bus' = << >>
    /\ delivered' = << >>
    /\ txres' = NoResult
    /\ result' = NoResult
    /\ pc' = "write_write"
    /\ read_buffer' = ZeroBuffer
    /\ UNCHANGED << crate, ctor, state, dev, buffer, open_ok, id >>
    /\ stale' = (read_buffer # ZeroBuffer)
    /\ prev_failed' = (result.kind = "Err")

\* A public write operation is called with frame [c as byte, payload]:
\* raw_write(&data) calls write(dev, data).
raw_write(o, a, c, payload) ==
    /\ state = "Ready"
    /\ pc = "idle"
    /\ op' = o
    /\ arg' = a
    /\ command' = c
    /\ data' = << CommandByte(crate, c), payload >>
    /\ bus' = << >>
    /\ delivered' = << >>
    /\ txres' = NoResult
    /\ result' = NoResult
    /\ pc' = "write_write"
    /\ UNCHANGED << crate, ctor, state, dev, read_buffer, buffer, open_ok, id >>
    /\ stale' = (read_buffer # ZeroBuffer)
    /\ prev_failed' = (result.kind = "Err")

\* write that tries once more after a first failure.
write_retry(ok) ==
    /\ pc = "write_write"
    /\ bus' = Append(bus, Ev("write", command, data, ok, Len(data)))
    /\ IF ~ok /\ Len(bus) = 0
       THEN /\ pc' = "write_write"
            /\ UNCHANGED result
       ELSE /\ result' = IF ok THEN OkUnit ELSE Err(TransportError(crate))
            /\ pc' = "idle"
    /\ UNCHANGED << crate, ctor, state, dev, read_buffer, buffer, op, arg,
                    command, data, txres, delivered, open_ok, id >>
    /\ UNCHANGED << stale, prev_failed >>

\* write: dev.write(&data) returned `ok`; the operation returns.
write(ok) ==
    /\ pc = "write_write"
    /\ bus' = Append(bus, Ev("write", command, data, ok, Len(data)))
    /\ result' = IF ok THEN OkUnit ELSE Err(TransportError(crate))
    /\ pc' = "idle"
    /\ UNCHANGED << crate, ctor, state, dev, read_buffer, buffer, op, arg,
                    command, data, txres, delivered, open_ok, id >>
    /\ UNCHANGED << stale, prev_failed >>

\* The payload of a bool with the two arms exchanged.
OnOff_inverted(cr, s) == IF s = 1 THEN ValueByte(cr, "Off") ELSE ValueByte(cr, "On")

\* The payload of a bool: On if state else Off.
OnOff(cr, s) == IF s = 1 THEN ValueByte(cr, "On") ELSE ValueByte(cr, "Off")

set_led(s) == raw_write("set_led", s, "SetLed", OnOff(crate, s))
set_epo_ignore(s) == raw_write("set_epo_ignore", s, "SetEpoIgnore", OnOff(crate, s))
set_comms_failsafe(s) == raw_write("set_comms_failsafe", s, "SetFailsafe", OnOff(crate, s))
stop_motors == raw_write("stop_motors", 0, "AllOff", 0)
reset_epo == raw_write("reset_epo", 0, "ResetEpo", 0)

\* The opcode each motor operation picks from the power's sign.
set_motor1_command_strict(power) == IF power > 0 THEN "SetBFwd" ELSE "SetBRev"

set_motor1_command(power) == IF power >= 0 THEN "SetBFwd" ELSE "SetBRev"

\* set_motor2 with the two opcodes exchanged.
set_motor2_command_swapped(power) == IF power >= 0 THEN "SetARev" ELSE "SetAFwd"

set_motor2_command(power) == IF power >= 0 THEN "SetAFwd" ELSE "SetARev"

set_motors_command(power) == IF power >= 0 THEN "SetAllFwd" ELSE "SetAllRev"

set_motor1(power) ==
    raw_write("set_motor1", power, set_motor1_command(power), power_to_pwm(power))
set_motor2(power) ==
    raw_write("set_motor2", power, set_motor2_command(power), power_to_pwm(power))
set_motors(power) ==
    raw_write("set_motors", power, set_motors_command(power), power_to_pwm(power))

MotorWrites == { "set_motor1", "set_motor2", "set_motors" }
FlagWrites == { "set_led", "set_epo_ignore", "set_comms_failsafe" }
WriteOps == MotorWrites \cup FlagWrites \cup { "stop_motors", "reset_epo" }
ReadOps == FlagReads \cup MotorReads

\* ------------------------------------------------------------------- drop
\* The session value is dropped with a frame for AllOff written first.
drop_session_stop ==
    /\ state = "Ready"
    /\ pc = "idle"
    /\ state' = "Dropped"
    /\ dev' = "closed"
    /\ op' = "drop"
    /\ arg' = 0
    /\ command' = "AllOff"
    /\ data' = << CommandByte(crate, "AllOff"), 0 >>
    /\ bus' = << Ev("write", "AllOff", << CommandByte(crate, "AllOff"), 0 >>, TRUE, 2) >>
    /\ delivered' = << >>
    /\ txres' = NoResult
    /\ result' = NoResult
    /\ stale' = FALSE
    /\ prev_failed' = FALSE
    /\ UNCHANGED << crate, ctor, read_buffer, buffer, pc, open_ok, id >>

\* The caller drops the session.  Neither draft implements Drop for
\* DiddyBorg, so only the fields are dropped: the transport handle is closed;
\* no code of the driver runs.
drop_session ==
    /\ state = "Ready"
    /\ pc = "idle"
    /\ state' = "Dropped"
    /\ dev' = "closed"
    /\ op' = "drop"
    /\ arg' = 0
    /\ command' = "none"
    /\ data' = << >>
    /\ bus' = << >>
    /\ delivered' = << >>
    /\ txres' = NoResult
    /\ result' = NoResult
    /\ stale' = FALSE
    /\ prev_failed' = FALSE
    /\ UNCHANGED << crate, ctor, read_buffer, buffer, pc, open_ok, id >>

\* ------------------------------------------------------------------- next
\* The driver against an arbitrary transport: every transport call succeeds
\* or fails and a read delivers any of the responses R, so the peripheral is
\* not tracked.
Ctors == { "linux", "linux_draft" }

NextWith(R) ==
    \/ \E cr \in Crates : new_mock(cr) /\ UNCHANGED pvars
    \/ \E cr \in Crates, k \in Ctors : new_call(cr, k) /\ UNCHANGED pvars
    \/ \E ok \in BOOLEAN : new_open(ok) /\ UNCHANGED pvars
    \/ new_ret /\ UNCHANGED pvars
    \/ \E ok \in BOOLEAN : read_write(ok) /\ UNCHANGED pvars
    \/ read_sleep /\ UNCHANGED pvars
    \/ \E ok \in BOOLEAN, resp \in R : read_read(ok, resp) /\ UNCHANGED pvars
    \/ get_ret /\ UNCHANGED pvars
    \/ get_led /\ UNCHANGED pvars
    \/ get_motor1 /\ UNCHANGED pvars
    \/ get_motor2 /\ UNCHANGED pvars
    \/ get_epo /\ UNCHANGED pvars
    \/ get_epo_ignore /\ UNCHANGED pvars
    \/ get_comms_failsafe /\ UNCHANGED pvars
    \/ get_drive_fault /\ UNCHANGED pvars
    \/ \E ok \in BOOLEAN : write(ok) /\ UNCHANGED pvars
    \/ \E s \in { 0, 1 } : set_led(s) /\ UNCHANGED pvars
    \/ \E s \in { 0, 1 } : set_epo_ignore(s) /\ UNCHANGED pvars
    \/ \E s \in { 0, 1 } : set_comms_failsafe(s) /\ UNCHANGED pvars
    \/ stop_motors /\ UNCHANGED pvars
    \/ reset_epo /\ UNCHANGED pvars
    \/ \E p \in Powers : set_motor1(p) /\ UNCHANGED pvars
    \/ \E p \in Powers : set_motor2(p) /\ UNCHANGED pvars
    \/ \E p \in Powers : set_motors(p) /\ UNCHANGED pvars
    \/ drop_session /\ UNCHANGED pvars

Next == NextWith(Responses)

Spec == Init /\ [][Next]_vars

\* The responses of the fair specification: bytes 0 and 3, which no decoding
\* reads, are left at 0; bytes 1 and 2 range as in Responses.
FairResponses == { r \in Responses : r[1] = 0 /\ r[4] = 0 }

\* The steps that are not calls by the caller: a transport call returning,
\* the delay ending, a function returning to its caller.
Returns ==
    \/ \E ok \in BOOLEAN : new_open(ok) /\ UNCHANGED pvars
    \/ new_ret /\ UNCHANGED pvars
    \/ \E ok \in BOOLEAN : read_write(ok) /\ UNCHANGED pvars
    \/ read_sleep /\ UNCHANGED pvars
    \/ \E ok \in BOOLEAN, resp \in FairResponses : read_read(ok, resp) /\ UNCHANGED pvars
    \/ get_ret /\ UNCHANGED pvars
    \/ \E ok \in BOOLEAN : write(ok) /\ UNCHANGED pvars

NextFair == NextWith(FairResponses)

\* The driver when every transport call it makes returns: the code between
\* two transport calls is straight-line, so a step that can be taken is taken.
SpecFair == Init /\ [][NextFair]_vars /\ WF_vars(Returns)

\* -------------------------------------------------------------- peripheral
\* The peripheral speaks the catalog's bytes (Command::value,
\* CommandValue::value).  A frame sets `sel` to its opcode byte; a 2-byte
\* frame with a Set opcode stores its payload; any other frame stores nothing.
PeriphWrite(p, f) ==
    LET q == [ p EXCEPT !.sel = f[1] ]
        fwd == CommandValueValueOf("Fwd")
        rev == CommandValueValueOf("Rev")
    IN  IF Len(f) # 2 THEN q
        ELSE IF f[1] = CommandValueOf("SetLed")
             THEN [ q EXCEPT !.led = IF f[2] = CommandValueValueOf("On")
                                     THEN CommandValueValueOf("On")
                                     ELSE CommandValueValueOf("Off") ]
        ELSE IF f[1] = CommandValueOf("SetAFwd") THEN [ q EXCEPT !.a = << fwd, f[2] >> ]
        ELSE IF f[1] = CommandValueOf("SetARev") THEN [ q EXCEPT !.a = << rev, f[2] >> ]
        ELSE IF f[1] = CommandValueOf("SetBFwd") THEN [ q EXCEPT !.b = << fwd, f[2] >> ]
        ELSE IF f[1] = CommandValueOf("SetBRev") THEN [ q EXCEPT !.b = << rev, f[2] >> ]
        ELSE q

\* The 4 bytes the peripheral returns to a read: the opcode echoed, then for
\* GetLed the LED state in byte 1, for GetA / GetB the direction in byte 1
\* and the duty in byte 2, for GetId the identity; zeros otherwise.
PeriphRead(p) ==
    IF p.sel = CommandValueOf("GetLed") THEN << p.sel, p.led, 0, 0 >>
    ELSE IF p.sel = CommandValueOf("GetA") THEN << p.sel, p.a[1], p.a[2], 0 >>
    ELSE IF p.sel = CommandValueOf("GetB") THEN << p.sel, p.b[1], p.b[2], 0 >>
    ELSE IF p.sel = CommandValueOf("GetId") THEN << p.sel, I2C_ID_PICOBORG_REV, 0, 0 >>
    ELSE << p.sel, 0, 0, 0 >>

\* The powers commanded against the peripheral: -0.5, 0, 0.75 and the largest.
PeriphPowers == { 0 - (PowerScale \div 2), 0, PowerScale - 1, MaxPower }

\* main.rs, PiBorg::new(): the device is opened, no handshake.
piborg_new ==
    /\ state = "NoSession"
    /\ crate' = "piborg"
    /\ ctor' = "piborg"
    /\ state' = "Ready"
    /\ dev' = "open"
    /\ read_buffer' = ZeroBuffer
    /\ op' = "new"
    /\ result' = OkSession
    /\ UNCHANGED << buffer, pc, arg, command, data, txres, bus, delivered,
                    open_ok, id, stale, prev_failed >>
    /\ UNCHANGED pvars

\* main.rs, PiBorg::raw_write(&[c.value(), payload]): port.write(&data), its
\* result dropped; the operation returns ().
piborg_raw_write(o, a, c, payload) ==
    LET frame == << CommandValueOf(c), payload >>
    IN  /\ crate = "piborg"
        /\ state = "Ready"
        /\ pc = "idle"
        /\ op' = o
        /\ arg' = a
        /\ command' = c
        /\ data' = frame
        /\ bus' = << Ev("write", c, frame, TRUE, Len(frame)) >>
        /\ delivered' = << >>
        /\ result' = OkUnit
        /\ periph' = PeriphWrite(periph, frame)
        /\ prev_op' = op
        /\ prev_arg' = arg
        /\ UNCHANGED << crate, ctor, state, dev, read_buffer, buffer, pc, txres,
                        open_ok, id, stale, prev_failed >>

\* main.rs, get_motor1 / get_motor2: Fwd -> power, anything else -> -power.
piborg_motor(buf) ==
    LET power == buf[3]
    IN  IF buf[2] = CommandValueValueOf("Fwd") THEN OkF32(power) ELSE OkF32(0 - power)

\* main.rs, PiBorg::raw_read(c, &mut buffer) for a motor: one transfer of the
\* write of [c.value()] and the read of the local 4-byte buffer, then the
\* decoding of that buffer.
piborg_raw_read(o, c) ==
    LET request == << CommandValueOf(c) >>
        answered == PeriphWrite(periph, request)
        resp == PeriphRead(answered)
    IN  /\ crate = "piborg"
        /\ state = "Ready"
        /\ pc = "idle"
        /\ op' = o
        /\ arg' = 0
        /\ command' = c
        /\ data' = << >>
        /\ bus' = << Ev("write", c, request, TRUE, Len(request)),
                     Ev("read", c, resp, TRUE, I2C_READ_LEN) >>
        /\ delivered' = resp
        /\ result' = piborg_motor(resp)
        /\ periph' = answered
        /\ prev_op' = op
        /\ prev_arg' = arg
        /\ UNCHANGED << crate, ctor, state, dev, read_buffer, buffer, pc, txres,
                        open_ok, id, stale, prev_failed >>

piborg_set_motor1(power) ==
    piborg_raw_write("set_motor1", power, set_motor1_command(power),
                     power_to_pwm_main(power))
piborg_set_motor2(power) ==
    piborg_raw_write("set_motor2", power, set_motor2_command(power),
                     power_to_pwm_main(power))
piborg_get_motor1 == piborg_raw_read("get_motor1", "GetA")
piborg_get_motor2 == piborg_raw_read("get_motor2", "GetA")

\* A public operation of a library session is called: the peripheral sees
\* nothing yet.
Called(A) ==
    /\ crate \in Crates
    /\ A
    /\ prev_op' = op
    /\ prev_arg' = arg
    /\ UNCHANGED periph

\* The driver against the peripheral over a transport that does not fail:
\* each frame written reaches the peripheral, each read returns its answer.
NextPeripheral ==
    \/ \E cr \in Crates : new_mock(cr) /\ UNCHANGED pvars
    \/ piborg_new
    \/ \E s \in { 0, 1 } : Called(set_led(s))
    \/ Called(get_led)
    \/ \E p \in PeriphPowers : Called(set_motor1(p))
    \/ \E p \in PeriphPowers : Called(set_motor2(p))
    \/ Called(get_motor1)
    \/ Called(get_motor2)
    \/ write(TRUE) /\ periph' = PeriphWrite(periph, data)
                   /\ UNCHANGED << prev_op, prev_arg >>
    \/ read_write(TRUE) /\ periph' = PeriphWrite(periph, << CommandByte(crate, command) >>)
                        /\ UNCHANGED << prev_op, prev_arg >>
    \/ read_sleep /\ UNCHANGED pvars
    \/ read_read(TRUE, PeriphRead(periph)) /\ UNCHANGED pvars
    \/ get_ret /\ UNCHANGED pvars
    \/ \E p \in PeriphPowers : piborg_set_motor1(p)
    \/ \E p \in PeriphPowers : piborg_set_motor2(p)
    \/ piborg_get_motor1
    \/ piborg_get_motor2
    \/ drop_session /\ UNCHANGED pvars

SpecPeripheral == Init /\ [][NextPeripheral]_vars


\* ================================================================= claims
\* What the log says about a read transaction: both transport steps succeeded.
TxOk == Len(bus) = 4 /\ bus[2].ok /\ bus[4].ok

\* A construction by new(path, device_address) has returned and nothing has
\* been called since.
NewReturned == op = "new" /\ ctor \in Ctors /\ state \in { "Ready", "Failed" }

\* A public operation has returned and nothing has been called since.
Returned(ops) == state = "Ready" /\ op \in ops /\ pc = "idle" /\ result.kind # "none"

\* C1: new(path, device_address) returns a session exactly when the identity
\* read transaction succeeded and byte 1 of its response is 0x15; with any
\* other identity byte it returns the identity-mismatch error and no session.
C1_IdentityGate ==
    NewReturned =>
        /\ (state = "Ready") <=> (result = OkSession)
        /\ (state = "Failed") <=> (result.kind = "Err")
        /\ (result = OkSession) <=> (TxOk /\ delivered[2] = 21)
        /\ (TxOk /\ delivered[2] # 21) =>
               /\ crate = "picoborgrev" => result.err \in { "NotFoundError", "InvalidIdError" }
               /\ crate = "diddyborg" => result.err = "DiddyBorgError"

C1_Witness ==
    /\ NewReturned /\ ctor = "linux" /\ open_ok = "ok"
    /\ TxOk /\ delivered[2] = 21 /\ state = "Ready"

\* C2 (as claimed): once opening the transport has failed, construction has
\* returned an error without a session and nothing was written to or read
\* from the unopened device.
C2_FailClosed ==
    open_ok = "failed" =>
        /\ state = "Failed"
        /\ result.kind = "Err"
        /\ \A i \in 1..Len(bus) : bus[i].ev \notin { "write", "read" }

\* C3 (as claimed): every session an operation can be invoked on came from a
\* construction whose identity handshake matched.
C3_HandshakeAlways == state = "Ready" => id = 21

\* C3 (amended): a session built by new(path, device_address) is Ready only
\* after its handshake read 0x15, a session built by the mock constructor is
\* Ready with no handshake at all, no operation on a Ready session sends
\* GetId again, and a Ready session stays Ready until it is dropped.
C3_HandshakeUnlessMock ==
    /\ [](state = "Ready" =>
            /\ ctor \in Ctors => id = 21
            /\ ctor = "mock" => id = -1
            /\ op # "new" => \A i \in 1..Len(bus) : bus[i].cmd # "GetId")
    /\ [][state = "Ready" => state' \in { "Ready", "Dropped" } /\ id' = id]_vars

C3_Witness ==
    /\ state = "Ready" /\ ctor = "linux_draft" /\ id = 21
    /\ op = "get_led" /\ pc = "idle" /\ result.kind = "Ok"

\* C4: a read transaction zeroes the 4-byte buffer, then writes one frame of
\* one byte (the opcode), then sleeps 10 ms, then reads 4 bytes; the read is
\* issued only after the write succeeded and the sleep is over.
C4_ReadOrder ==
    (op \in ReadOps \/ (op = "new" /\ ctor \in Ctors)) =>
        /\ Len(bus) <= 4
        /\ pc \in { "read_write", "read_sleep", "read_read" } =>
               (IF state = "Unverified" THEN buffer ELSE read_buffer) = << 0, 0, 0, 0 >>
        /\ Len(bus) >= 1 => bus[1].ev = "zero" /\ bus[1].n = 4
        /\ Len(bus) >= 2 =>
               /\ bus[2].ev = "write"
               /\ Len(bus[2].bytes) = 1
               /\ bus[2].bytes[1] = CommandByte(crate, bus[2].cmd)
               /\ bus[2].cmd = command
        /\ Len(bus) >= 3 => bus[2].ok /\ bus[3].ev = "sleep" /\ bus[3].n = 10
        /\ Len(bus) >= 4 => bus[4].ev = "read" /\ bus[4].n = 4
        /\ pc = "read_sleep" => Len(bus) = 2
        /\ pc = "read_read" => Len(bus) = 3

C4_Witness ==
    /\ op = "get_motor1" /\ pc = "read_ret" /\ Len(bus) = 4 /\ bus[4].ok
    /\ stale

\* C5: read returns the transport error when its write fails and when its
\* read fails, and Ok only when both succeed; after a failed write there is
\* no sleep and no bus read.
C5_ReadErrors ==
    pc = "read_ret" =>
        /\ Len(bus) >= 2
        /\ ~bus[2].ok => Len(bus) = 2 /\ txres = Err(IF crate = "picoborgrev" THEN "I2C" ELSE "DiddyBorgError")
        /\ bus[2].ok =>
               /\ Len(bus) = 4
               /\ ~bus[4].ok => txres = Err(IF crate = "picoborgrev" THEN "I2C" ELSE "DiddyBorgError")
               /\ bus[4].ok => txres.kind = "Ok"

C5_Witness ==
    /\ pc = "read_ret" /\ state = "Ready" /\ op = "get_epo"
    /\ ~bus[2].ok /\ txres.kind = "Err"

\* C6: after a read transaction of a session has failed, in either step,
\* read_buffer holds only zeros.
C6_ZeroOnFailure ==
    (state = "Ready" /\ op \in ReadOps /\ pc \in { "read_ret", "idle" } /\ txres.kind = "Err")
        => read_buffer = << 0, 0, 0, 0 >>

C6_Witness ==
    /\ Returned(ReadOps) /\ stale /\ result.kind = "Err"
    /\ Len(bus) = 4 /\ ~bus[4].ok

\* C7: what a read operation returns is a function of the draft, the
\* operation and what the transport did in this call alone (the step
\* outcomes and the delivered bytes), whatever the buffer held before and
\* whether the previous call failed.
C7_OwnBytesOnly ==
    Returned(ReadOps) =>
        result = decode(crate, op,
                        IF TxOk THEN OkUnit
                        ELSE Err(IF crate = "picoborgrev" THEN "I2C" ELSE "DiddyBorgError"),
                        delivered)

C7_Witness ==
    /\ Returned(ReadOps) /\ stale /\ prev_failed
    /\ TxOk /\ result.kind = "Ok" /\ delivered[2] = 1

\* C8 (as claimed): a flag read whose transaction succeeded returns Ok(true)
\* for byte 1 = 1, Ok(false) for byte 1 = 0 and CorruptedData otherwise.
C8_FlagDecoding ==
    (Returned(FlagReads) /\ TxOk) =>
        /\ delivered[2] = 1 => result = OkBool(TRUE)
        /\ delivered[2] = 0 => result = OkBool(FALSE)
        /\ delivered[2] \notin { 0, 1 } => result = Err("CorruptedData")

\* C9 (as claimed): a motor read whose transaction succeeded returns
\* Ok(+byte2/255) for byte 1 = 1, Ok(-byte2/255) for byte 1 = 2 and
\* CorruptedData otherwise.
C9_MotorDecoding ==
    (Returned(MotorReads) /\ TxOk) =>
        /\ delivered[2] = 1 => result = OkF32(delivered[3])
        /\ delivered[2] = 2 => result = OkF32(0 - delivered[3])
        /\ delivered[2] \notin { 1, 2 } => result = Err("CorruptedData")

\* C10: set_motor1, set_motor2 and set_motors write exactly one frame of two
\* bytes, [opcode, power_to_pwm(p)], the opcode being the Fwd variant for
\* p >= 0 and the Rev variant for p < 0 of SetB (motor 1), SetA (motor 2)
\* and SetAll (both).
C10_MotorFrame ==
    Returned(MotorWrites) =>
        /\ Len(bus) = 1
        /\ bus[1].ev = "write"
        /\ Len(bus[1].bytes) = 2
        /\ bus[1].cmd =
               (CASE op = "set_motor1" -> IF arg >= 0 THEN "SetBFwd" ELSE "SetBRev"
                  [] op = "set_motor2" -> IF arg >= 0 THEN "SetAFwd" ELSE "SetARev"
                  [] op = "set_motors" -> IF arg >= 0 THEN "SetAllFwd" ELSE "SetAllRev")
        /\ bus[1].bytes[1] = CommandByte(crate, bus[1].cmd)
        /\ bus[1].bytes[2] = power_to_pwm(arg)

C10_Witness ==
    /\ Returned(MotorWrites) /\ op = "set_motor1" /\ arg = 0
    /\ bus[1].cmd = "SetBFwd" /\ bus[1].bytes[2] = 0

\* ------------------------------------------------------------ duty claims
\* clamp(|p|, 0, 1), as a numerator over PowerScale.
Clamped(n) == IF Abs(n) > PowerScale THEN PowerScale ELSE Abs(n)

\* d is 255 * clamp(|p|, 0, 1) with the fraction dropped.
IsFloorDuty(d, n) ==
    /\ d \in 0..255
    /\ d * PowerScale <= PWM_MAX * Clamped(n)
    /\ PWM_MAX * Clamped(n) < (d + 1) * PowerScale

\* d is 255 * clamp(|p|, 0, 1) rounded to the nearest integer (halves up).
IsRoundDuty(d, n) ==
    /\ d \in 0..255
    /\ 2 * d * PowerScale <= 2 * PWM_MAX * Clamped(n) + PowerScale
    /\ 2 * PWM_MAX * Clamped(n) + PowerScale < 2 * (d + 1) * PowerScale

ForwardCommands == { "SetBFwd", "SetAFwd", "SetAllFwd" }
ReverseCommands == { "SetBRev", "SetARev", "SetAllRev" }

\* C11 as stated: the duty byte a motor operation transmits for power p, and
\* the byte main.rs computes for p, is 255 * clamp(|p|, 0, 1) rounded to the
\* nearest integer.
C11_RoundToNearest ==
    Returned(MotorWrites) =>
        /\ IsRoundDuty(bus[1].bytes[2], arg)
        /\ IsRoundDuty(power_to_pwm_main(arg), arg)

\* C11 amended: the duty byte a motor operation transmits for power p, and
\* the byte main.rs computes for p, is 255 * clamp(|p|, 0, 1) with the
\* fraction dropped (truncation toward zero), in 0..255.
C11_Truncates ==
    Returned(MotorWrites) =>
        /\ IsFloorDuty(bus[1].bytes[2], arg)
        /\ IsFloorDuty(power_to_pwm_main(arg), arg)

\* A motor operation has transmitted the duty of an in-range power whose
\* product with 255 has a fraction of one half or more.
C11_Witness ==
    /\ Returned(MotorWrites)
    /\ Abs(arg) <= PowerScale
    /\ 2 * ((PWM_MAX * Abs(arg)) % PowerScale) >= PowerScale
    /\ bus[1].ok
    /\ IsFloorDuty(bus[1].bytes[2], arg)

\* C12: for every power of magnitude above 1, of either sign, the duty byte
\* transmitted is exactly 255 (no wrap-around), the operation still issues
\* its one write, and its result is the transport's result, never a
\* rejection of the power.
C12_ClampTo255 ==
    (Returned(MotorWrites) /\ Abs(arg) > PowerScale) =>
        /\ Len(bus) = 1
        /\ bus[1].ev = "write"
        /\ bus[1].bytes[2] = PWM_MAX
        /\ power_to_pwm_main(arg) = PWM_MAX
        /\ (result.kind = "Ok") <=> bus[1].ok
        /\ (result.kind = "Err") => result = Err(TransportError(crate))

\* set_motors with a power below -1 has returned Ok, having sent duty 255.
C12_Witness ==
    /\ Returned({ "set_motors" })
    /\ arg < 0 - PowerScale
    /\ result = OkUnit
    /\ bus[1].bytes[2] = PWM_MAX

\* C13: for every power of magnitude at most 1, the frame transmitted has a
\* forward opcode exactly when p >= 0 (so p = 0 is Forward) and a reverse
\* opcode otherwise, and duty / 255 differs from |p| by at most 1 / 255.
C13_FrameRoundTrip ==
    (Returned(MotorWrites) /\ Abs(arg) <= PowerScale) =>
        /\ bus[1].cmd \in ForwardCommands \cup ReverseCommands
        /\ (bus[1].cmd \in ForwardCommands) <=> (arg >= 0)
        /\ Abs(bus[1].bytes[2] * PowerScale - PWM_MAX * Abs(arg)) <= PowerScale
        /\ Abs(power_to_pwm_main(arg) * PowerScale - PWM_MAX * Abs(arg)) <= PowerScale

\* set_motor2 with a negative in-range power whose duty is inexact has sent
\* a reverse frame.
C13_Witness ==
    /\ Returned({ "set_motor2" })
    /\ arg < 0
    /\ Abs(arg) < PowerScale
    /\ bus[1].cmd = "SetARev"
    /\ bus[1].bytes[2] * PowerScale # PWM_MAX * Abs(arg)

\* C14: the duty byte transmitted for p is the duty byte of -p (for the
\* library's power_to_pwm and for main.rs's), the frame has the opcode byte
\* and the duty byte only, and for p # 0 the opcode is the one of the opposite
\* direction to the opcode for -p.
C14_Symmetric ==
    Returned(MotorWrites) =>
        /\ Len(bus[1].bytes) = 2
        /\ bus[1].bytes[2] = power_to_pwm(0 - arg)
        /\ power_to_pwm_main(arg) = power_to_pwm_main(0 - arg)
        /\ power_to_pwm_main(arg) = bus[1].bytes[2]
        /\ arg # 0 =>
              ((bus[1].cmd \in ForwardCommands) <=> (0 - arg < 0))

\* set_motor1 with a negative power has sent a duty strictly between 0 and 255.
C14_Witness ==
    /\ Returned({ "set_motor1" })
    /\ arg < 0
    /\ bus[1].bytes[2] > 0
    /\ bus[1].bytes[2] < PWM_MAX

\* --------------------------------------------------------- catalog claims
\* The opcode variant each non-motor write operation names.
FlagCommand(o) ==
    CASE o = "set_led" -> "SetLed"
      [] o = "set_epo_ignore" -> "SetEpoIgnore"
      [] o = "set_comms_failsafe" -> "SetFailsafe"
      [] o = "stop_motors" -> "AllOff"
      [] o = "reset_epo" -> "ResetEpo"

\* C17 as stated: the first byte of every frame written to the bus, by a
\* public operation or by the handshake, is the catalog byte of the opcode
\* (Command::value), and the payload of a flag write is the catalog byte of
\* On (1) or Off (0).
C17_CatalogBytes ==
    /\ \A i \in 1..Len(bus) :
          bus[i].ev = "write" => bus[i].bytes[1] = CommandValueOf(bus[i].cmd)
    /\ Returned(FlagWrites) =>
          bus[1].bytes[2] = CommandValueValueOf(IF arg = 1 THEN "On" ELSE "Off")

\* C18: Command::value gives every opcode one byte in 0..255, no two opcodes
\* the same byte, and the opcode byte a session using it has written stands
\* for no opcode other than the one the operation named.
C18_Injective ==
    /\ \A c \in Command : CommandValueOf(c) \in 0..255
    /\ Cardinality({ CommandValueOf(c) : c \in Command }) = Cardinality(Command)
    /\ crate = "diddyborg" =>
          \A i \in 1..Len(bus) :
              bus[i].ev = "write" =>
                  \A c \in Command :
                      CommandValueOf(c) = bus[i].bytes[1] => c = bus[i].cmd

\* The handshake of a session using Command::value has written GetId as 0x99.
C18_Witness ==
    /\ crate = "diddyborg"
    /\ Len(bus) >= 2
    /\ bus[2].ev = "write"
    /\ bus[2].cmd = "GetId"
    /\ bus[2].bytes = << 153 >>

\* C19: CommandValue::value is Off = 0, On = 1, Forward = 1, Reverse = 2; two
\* distinct value codes share a byte only if they are On and Forward; a
\* session using it writes 1 for On and 0 for Off and reads direction byte 1
\* as Forward and 2 as Reverse.
C19_ValueCodes ==
    /\ CommandValueValueOf("Off") = 0
    /\ CommandValueValueOf("On") = 1
    /\ CommandValueValueOf("Fwd") = 1
    /\ CommandValueValueOf("Rev") = 2
    /\ \A v1, v2 \in CommandValue :
          (v1 # v2 /\ CommandValueValueOf(v1) = CommandValueValueOf(v2))
              => { v1, v2 } = { "On", "Fwd" }
    /\ (crate = "diddyborg" /\ Returned(FlagWrites)) => bus[1].bytes[2] = arg
    /\ (crate = "diddyborg" /\ Returned(MotorReads) /\ TxOk /\ delivered[2] = 1)
          => result = OkF32(delivered[3])
    /\ (crate = "diddyborg" /\ Returned(MotorReads) /\ TxOk /\ delivered[2] = 2)
          => result = OkF32(0 - delivered[3])

\* A session using CommandValue::value has read direction byte 1 with a
\* non-zero duty and returned it as a forward power.
C19_Witness ==
    /\ crate = "diddyborg"
    /\ Returned({ "get_motor1" })
    /\ TxOk
    /\ delivered[2] = 1
    /\ delivered[3] > 0
    /\ result = OkF32(delivered[3])

\* C20: set_led(s), set_epo_ignore(s), set_comms_failsafe(s), stop_motors and
\* reset_epo each issue exactly one write, of a 2-byte frame: the opcode
\* SetLed / SetEpoIgnore / SetFailsafe with payload 1 (On) if s else 0 (Off),
\* AllOff with payload 0, ResetEpo with payload 0.
C20_FlagFrames ==
    Returned(FlagWrites \cup { "stop_motors", "reset_epo" }) =>
        /\ Len(bus) = 1
        /\ bus[1].ev = "write"
        /\ bus[1].n = 2
        /\ Len(bus[1].bytes) = 2
        /\ bus[1].cmd = FlagCommand(op)
        /\ bus[1].bytes[1] = CommandByte(crate, FlagCommand(op))
        /\ bus[1].bytes[2] = (IF op \in FlagWrites THEN arg ELSE 0)

\* set_comms_failsafe(true) has returned, having written [SetFailsafe, 1].
C20_Witness ==
    /\ Returned({ "set_comms_failsafe" })
    /\ arg = 1
    /\ Len(bus) = 1
    /\ bus[1].cmd = "SetFailsafe"
    /\ bus[1].bytes[2] = 1

\* ------------------------------------------------------- round-trip claims
\* The power a motor read returned, within 1/255 of p clamped to [-1, 1].
ReturnsAbout(res, p) ==
    LET c == IF p > PowerScale THEN PowerScale
             ELSE IF p < 0 - PowerScale THEN 0 - PowerScale ELSE p
    IN  /\ res.kind = "Ok"
        /\ res.ty = "f32"
        /\ Abs(res.n * PowerScale - PWM_MAX * c) <= PowerScale

\* C15 as stated: against the peripheral, get_motor1 called right after
\* set_motor1(p) queries GetB and returns p within 1/255, and get_motor2
\* called right after set_motor2(p) queries GetA and returns p within 1/255.
C15_MotorRoundTrip ==
    /\ (Returned({ "get_motor1" }) /\ prev_op = "set_motor1") =>
          /\ command = "GetB"
          /\ ReturnsAbout(result, prev_arg)
    /\ (Returned({ "get_motor2" }) /\ prev_op = "set_motor2") =>
          /\ command = "GetA"
          /\ ReturnsAbout(result, prev_arg)

\* C16 as stated: against the peripheral, get_led called right after
\* set_led(s) returns Ok(s), for s true and for s false.
C16_LedRoundTrip ==
    (Returned({ "get_led" }) /\ prev_op = "set_led") =>
        result = OkBool(prev_arg = 1)

\* ------------------------------------------------------ transaction claims
\* The opcode variant each read operation names.
ReadCommand(o) ==
    CASE o = "get_led" -> "GetLed"
      [] o = "get_motor1" -> "GetB"
      [] o = "get_motor2" -> "GetA"
      [] o = "get_epo" -> "GetEpo"
      [] o = "get_epo_ignore" -> "GetEpoIgnore"
      [] o = "get_comms_failsafe" -> "GetFailsafe"
      [] o = "get_drive_fault" -> "GetDriveFault"

\* The frame a write operation sends for its argument on a fresh session.
WriteFrame(cr, o, a) ==
    IF o \in FlagWrites THEN << CommandByte(cr, FlagCommand(o)), a >>
    ELSE IF o \in { "stop_motors", "reset_epo" } THEN << CommandByte(cr, FlagCommand(o)), 0 >>
    ELSE LET c == IF o = "set_motor1" THEN set_motor1_command(a)
                  ELSE IF o = "set_motor2" THEN set_motor2_command(a)
                  ELSE set_motors_command(a)
         IN  << CommandByte(cr, c), power_to_pwm(a) >>

\* What a read operation returns for the outcomes and bytes of its own
\* transaction on a fresh session.
ReadResult(cr, o) ==
    decode(cr, o, IF TxOk THEN OkUnit ELSE Err(TransportError(cr)), delivered)

\* The number of events of one kind in the log of the current call.
CountEv(k) == Cardinality({ i \in 1..Len(bus) : bus[i].ev = k })

\* An operation or the handshake is between its call and its return.
InProgress == pc \in { "read_write", "read_sleep", "read_read", "read_ret", "write_write" }

\* C21: an operation that returns an error leaves the session Ready with its
\* transport handle, and the operation called after a failed one sends the
\* frame and returns the result a session with no prior failure would, for
\* the same transport outcomes and response bytes.
C21_UsableAfterFailure ==
    /\ []((Returned(WriteOps) /\ prev_failed) =>
            /\ Len(bus) = 1
            /\ bus[1].bytes = WriteFrame(crate, op, arg)
            /\ result = IF bus[1].ok THEN OkUnit ELSE Err(TransportError(crate)))
    /\ []((Returned(ReadOps) /\ prev_failed) =>
            /\ bus[2].bytes = << CommandByte(crate, ReadCommand(op)) >>
            /\ result = ReadResult(crate, op))
    /\ [][(state = "Ready" /\ InProgress /\ pc' = "idle" /\ result'.kind = "Err")
             => (state' = "Ready" /\ dev' = dev)]_vars

\* get_epo, called after an operation that failed, has read On and returned
\* Ok(true).
C21_Witness ==
    /\ Returned({ "get_epo" })
    /\ prev_failed
    /\ TxOk
    /\ delivered[2] = 1
    /\ result = OkBool(TRUE)

\* C22: a write operation issues at most one bus write and no bus read, and
\* exactly one write once it has returned; a read operation issues exactly
\* one bus write and a bus read only after that write succeeded, at most
\* one; a failed transport call is returned as the transport error.
C22_NoRetry ==
    /\ op \in WriteOps => (CountEv("write") <= 1 /\ CountEv("read") = 0)
    /\ op \in ReadOps => (CountEv("write") <= 1 /\ CountEv("read") <= 1)
    /\ Returned(WriteOps) =>
          /\ CountEv("write") = 1
          /\ ~bus[1].ok => result = Err(TransportError(crate))
    /\ Returned(ReadOps) =>
          /\ CountEv("write") = 1
          /\ ~bus[2].ok => (CountEv("read") = 0 /\ result = Err(TransportError(crate)))
          /\ bus[2].ok =>
                /\ CountEv("read") = 1
                /\ ~bus[4].ok => result = Err(TransportError(crate))

\* A write operation whose one write failed has returned the error.
C22_Witness ==
    /\ Returned(WriteOps)
    /\ Len(bus) = 1
    /\ ~bus[1].ok
    /\ result.kind = "Err"

\* C23: every frame written is one opcode byte alone, for a read operation
\* or the handshake, or one opcode byte and one payload byte, for a write
\* operation, each a byte; every bus read asks for exactly 4 bytes.
C23_FrameLengths ==
    \A i \in 1..Len(bus) :
        /\ bus[i].ev = "write" =>
              /\ Len(bus[i].bytes) \in { 1, 2 }
              /\ bus[i].n = Len(bus[i].bytes)
              /\ \A k \in 1..Len(bus[i].bytes) : bus[i].bytes[k] \in 0..255
              /\ (Len(bus[i].bytes) = 1) <=> (op \in ReadOps \/ op = "new")
              /\ (Len(bus[i].bytes) = 2) <=> (op \in WriteOps)
        /\ bus[i].ev = "read" => bus[i].n = I2C_READ_LEN

\* get_drive_fault has written its 1-byte frame and read 4 bytes.
C23_Witness ==
    /\ Returned({ "get_drive_fault" })
    /\ TxOk
    /\ Len(bus[2].bytes) = 1
    /\ bus[4].n = 4

\* C24: while an operation is in progress no other operation begins: the
\* operation, its argument and its opcode stay, and the bus log grows only
\* by events of that operation, so the response read follows the opcode
\* write of the same opcode with only the delay between them.
C24_Atomic ==
    /\ [](\A i \in 1..Len(bus) :
            bus[i].ev = "read" =>
                /\ i = 4
                /\ bus[2].ev = "write"
                /\ bus[2].cmd = bus[4].cmd
                /\ bus[3].ev = "sleep")
    /\ [][InProgress =>
            /\ op' = op
            /\ arg' = arg
            /\ command' = command
            /\ \/ bus' = bus
               \/ /\ Len(bus') = Len(bus) + 1
                  /\ SubSeq(bus', 1, Len(bus)) = bus
                  /\ bus'[Len(bus')].cmd \in { command, "none" }]_vars

\* get_motor2 is between its opcode write and its response read.
C24_Witness ==
    /\ op = "get_motor2"
    /\ pc = "read_read"
    /\ Len(bus) = 3
    /\ bus[2].cmd = "GetA"

\* ------------------------------------------------------------ error claims
\* new(path, device_address) has returned after its identity read
\* transaction failed at the transport, in the write or in the read.
HandshakeFailed == NewReturned /\ Len(bus) >= 2 /\ ~TxOk

\* C25 as stated: when the identity read transaction fails at the transport,
\* construction returns the identity-mismatch error and no session.
C25_MismatchOnTransportFailure ==
    HandshakeFailed =>
        /\ state = "Failed"
        /\ result = Err(MismatchError(crate, ctor))

\* C25 amended: when the identity read transaction fails at the transport,
\* construction returns that transport error (not NotFoundError /
\* InvalidIdError), no identity byte is obtained and no session is produced.
C25_TransportErrorPropagated ==
    HandshakeFailed =>
        /\ state = "Failed"
        /\ id = -1
        /\ result = Err(TransportError(crate))
        /\ crate = "picoborgrev" => result.err \notin { "NotFoundError", "InvalidIdError" }

\* picoborgrev's new has returned I2C(e) after the handshake's read failed.
C25_Witness ==
    /\ HandshakeFailed
    /\ crate = "picoborgrev"
    /\ Len(bus) = 4
    /\ ~bus[4].ok
    /\ result = Err("I2C")

\* C26 as stated: an operation returns CorruptedData only when it is a read
\* whose two transport steps succeeded, returns the transport error only
\* when a transport write or read failed, and a write operation returns
\* neither CorruptedData nor the error new returns for an identity mismatch.
C26_ErrorKinds ==
    Returned(ReadOps \cup WriteOps) =>
        /\ result.err = "CorruptedData" => (op \in ReadOps /\ TxOk)
        /\ result = Err(TransportError(crate)) =>
              \E i \in 1..Len(bus) : bus[i].ev \in { "write", "read" } /\ ~bus[i].ok
        /\ op \in WriteOps =>
              /\ result.err # "CorruptedData"
              /\ \A k \in Ctors : result.err # MismatchError(crate, k)

\* C27: the result of a read operation whose transaction succeeded is the
\* decoding of the response with bytes 0 and 3 blanked, so it does not depend
\* on them, and a response whose byte 0 is not the opcode sent is decoded
\* like any other.
C27_Bytes1And2Only ==
    (Returned(ReadOps) /\ TxOk) =>
        /\ result = decode(crate, op, OkUnit, << 0, delivered[2], delivered[3], 0 >>)
        /\ op \in FlagReads =>
              result = decode(crate, op, OkUnit, << 0, delivered[2], 0, 0 >>)

\* A read operation has decoded to Ok a response whose byte 0 is not the
\* opcode it sent and whose byte 3 is not zero.
C27_Witness ==
    /\ Returned(ReadOps)
    /\ TxOk
    /\ delivered[1] # bus[2].bytes[1]
    /\ delivered[1] # 0
    /\ delivered[4] # 0
    /\ result.kind = "Ok"

\* C28: a write operation logs no buffer clearing, no delay and no bus read,
\* no step of it changes read_buffer, and read_buffer changes only in a step
\* of a read operation.
C28_WritesLeaveBuffer ==
    /\ [](op \in WriteOps =>
            (CountEv("zero") = 0 /\ CountEv("sleep") = 0 /\ CountEv("read") = 0))
    /\ [][(pc = "write_write" \/ pc' = "write_write") => read_buffer' = read_buffer]_vars
    /\ [][read_buffer' # read_buffer => op' \in ReadOps]_vars

\* A write operation has returned with the buffer still holding the last
\* response.
C28_Witness ==
    /\ Returned(WriteOps)
    /\ Len(bus) = 1
    /\ stale
    /\ read_buffer # ZeroBuffer

\* C29: when every transport call returns, an operation in progress (and a
\* construction) returns to the caller; and a blocked transport call is left
\* only by that call returning, which the log records: there is no timeout.
C29_Returns ==
    /\ (InProgress \/ pc = "open") ~> (pc = "idle")
    /\ [][(pc \in { "read_write", "read_read", "write_write" } /\ pc' # pc) =>
            /\ Len(bus') = Len(bus) + 1
            /\ bus'[Len(bus')].ev = (IF pc = "read_read" THEN "read" ELSE "write")]_vars
    /\ [][(pc = "open" /\ pc' # pc) => (open_ok = "none" /\ open_ok' # "none")]_vars

\* A read operation has returned after both of its transport calls returned.
C29_Witness ==
    /\ Returned({ "get_comms_failsafe" })
    /\ Len(bus) = 4
    /\ bus[4].ev = "read"

\* C30: dropping a session writes no frame (the log of the drop is empty),
\* leaves what the peripheral stored as it was, and nothing is written
\* after it.
C30_DropWritesNothing ==
    /\ [](state = "Dropped" => bus = << >>)
    /\ [][state' = "Dropped" => (bus' = << >> /\ periph' = periph)]_vars

\* A session has been dropped while motor B was commanded to a non-zero duty.
C30_Witness ==
    /\ state = "Dropped"
    /\ crate = "diddyborg"
    /\ periph.b[2] > 0

====
